---- MODULE Spec2Model ----
(***************************************************************************)
(* Audio-reactive effect core of the repository:                           *)
(*   src/src/audio/music_processor.py  MusicProcessor._calculate_energy_   *)
(*                                     profile, MusicProcessor._frame_     *)
(*                                     signal                              *)
(*   src/src/video/generator.py        VideoGenerator and its four effect  *)
(*                                     generators, generate_background     *)
(*                                                                         *)
(* Numbers.  The program computes with Python ints and IEEE doubles.       *)
(* Doubles are modelled in fixed point: an energy value is an integer in   *)
(* units of 1/Scale, NaN is a value of its own, a time is an integer       *)
(* number of ticks.                                                        *)
(***************************************************************************)
EXTENDS Integers, Sequences, FiniteSets, TLC

VARIABLES
    \* ---- MusicProcessor._calculate_energy_profile ----
    y,              \* the audio time series (argument)
    frame_length,   \* argument
    hop_length,     \* argument
    framed,         \* what _frame_signal returned or raised
    energy,         \* what _calculate_energy_profile returned or raised
    epc,            \* "start" | "done"
    \* ---- VideoGenerator: one effect generator at work ----
    gen,            \* which generator: "particle" | "patterns" | "flares" | "bokeh"
    energy_profile, \* argument
    sync_points,    \* argument: <<time, strength>> pairs
    rng,            \* the state of the process-wide random module
    frame_i,        \* the frame loop's index i
    frames,         \* the frames rendered so far
    particles,      \* _create_particle_system's particles
    bokeh_points,   \* _create_bokeh_effects' points
    current_pattern,\* _create_geometric_patterns' pattern index
    gpc,            \* "start" | "loop" | "returned" | "raised"
    gerr,           \* the exception raised, or "none"
    clip,           \* the clip returned
    earlier,        \* the outcomes of the calls the process made before
    peer,           \* a second generator at work in another thread: its locals
    \* ---- VideoGenerator.generate_background ----
    theme,          \* argument
    duration,       \* argument, in ticks
    effects,        \* _generate_effects' list of clips
    final_clip,     \* the CompositeVideoClip
    video,          \* the file written
    bg_err,         \* the exception raised to the caller, or "none"
    bpc             \* "start" | "done"

energyVars == <<y, frame_length, hop_length, framed, energy, epc>>

genArgs == <<gen, energy_profile, sync_points>>
genLocals == <<rng, frame_i, frames, particles, bokeh_points, current_pattern,
               gpc, gerr, clip>>
genVars == <<genArgs, genLocals, earlier>>
bgVars == <<theme, duration, effects, final_clip, video, bg_err, bpc>>

vars == <<energyVars, genVars, peer, bgVars>>

(***************************************************************************)
(* Bounds of the model.                                                    *)
(***************************************************************************)
MaxLen == 6
MaxSample == 2
MaxFrameLength == 3
MaxHop == 2
Scale == 100

(***************************************************************************)
(* Generic helpers.                                                        *)
(***************************************************************************)
Min(a, b) == IF a < b THEN a ELSE b
Max(a, b) == IF a > b THEN a ELSE b
Abs(a) == IF a < 0 THEN -a ELSE a

SeqsUpTo(S, n) == UNION {[1..k -> S] : k \in 0..n}

\* Python's // on ints: the floor of the quotient, for either sign of b # 0.
FloorDiv(a, b) == IF b > 0 THEN a \div b ELSE (-a) \div (-b)

\* Python's s[lo:hi] on a sequence of length N: a negative index counts from
\* the end, and both ends are clamped to [0, N].
PySliceIndex(k, N) == IF k < 0 THEN Max(k + N, 0) ELSE Min(k, N)

PySlice(s, lo, hi) ==
    LET a == PySliceIndex(lo, Len(s))
        b == PySliceIndex(hi, Len(s))
    IN  IF b <= a THEN <<>> ELSE [j \in 1..(b - a) |-> s[a + j]]

\* The integer square root: the fixed-point image of np.sqrt.
ISqrt(v) ==
    CHOOSE r \in 0..((v \div Scale) + Scale) : r * r <= v /\ v < (r + 1) * (r + 1)

(***************************************************************************)
(* NaN: the value numpy gives 0.0/0.0 and the mean of an empty frame.      *)
(***************************************************************************)
NaN == -1

Raised(kind) == [err |-> kind, val |-> <<>>]
Returned(v) == [err |-> "none", val |-> v]
NotCalled == [err |-> "notcalled", val |-> <<>>]

(***************************************************************************)
(* MusicProcessor._frame_signal                                            *)
(***************************************************************************)
\* A frame count that forgets the frame's own length.
NFramesByHopOnly(N, fl, hop) == 1 + FloorDiv(N, hop)

\* n_frames = 1 + (len(y) - frame_length) // hop_length
NFrames(N, fl, hop) == 1 + FloorDiv(N - fl, hop)

\* frames[i] = y[i*hop : i*hop + fl]: numpy assigns a slice of length fl as
\* it is, broadcasts a slice of length 1 over the row, and raises ValueError
\* for any other length.
FrameRow(sig, fl, hop, i) == PySlice(sig, i * hop, i * hop + fl)

RowAssignable(row, fl) == Len(row) = fl \/ Len(row) = 1

RowAssigned(row, fl) ==
    IF Len(row) = fl THEN row ELSE [j \in 1..fl |-> row[1]]

FrameSignal(sig, fl, hop) ==
    IF hop = 0 THEN Raised("ZeroDivisionError")
    ELSE LET n == NFrames(Len(sig), fl, hop)
         IN  IF n < 0 \/ fl < 0 THEN Raised("ValueError")
             ELSE IF \E i \in 0..(n - 1) :
                        ~RowAssignable(FrameRow(sig, fl, hop, i), fl)
             THEN Raised("ValueError")
             ELSE Returned([k \in 1..n |->
                                RowAssigned(FrameRow(sig, fl, hop, k - 1), fl)])

(***************************************************************************)
(* MusicProcessor._calculate_energy_profile                                *)
(***************************************************************************)
RECURSIVE SumSq(_)
SumSq(row) == IF row = <<>> THEN 0
              ELSE row[1] * row[1] + SumSq(Tail(row))

\* np.sqrt(np.mean(frame**2)); the mean of an empty frame is NaN.
Rms(row) ==
    IF Len(row) = 0 THEN NaN
    ELSE ISqrt((SumSq(row) * Scale * Scale) \div Len(row))

HasNaN(e) == \E k \in 1..Len(e) : e[k] = NaN

\* energy.min() and energy.max(): NaN as soon as one entry is NaN.
ArrMin(e) == IF HasNaN(e) THEN NaN
             ELSE CHOOSE m \in {e[k] : k \in 1..Len(e)} :
                      \A k \in 1..Len(e) : m <= e[k]
ArrMax(e) == IF HasNaN(e) THEN NaN
             ELSE CHOOSE m \in {e[k] : k \in 1..Len(e)} :
                      \A k \in 1..Len(e) : m >= e[k]

\* A normalisation that scales by the maximum alone.
NormalizeEntryByMax(e, mn, mx) ==
    IF e = NaN \/ mn = NaN \/ mx = NaN THEN NaN
    ELSE IF mx = 0 THEN NaN
    ELSE ((e - mn) * Scale) \div mx

\* (energy - energy.min()) / (energy.max() - energy.min()), entry by entry:
\* numpy divides 0.0 by 0.0 to NaN (a warning, no exception).
NormalizeEntry(e, mn, mx) ==
    IF e = NaN \/ mn = NaN \/ mx = NaN THEN NaN
    ELSE IF mx - mn = 0 THEN NaN
    ELSE ((e - mn) * Scale) \div (mx - mn)

Normalize(e) ==
    [k \in 1..Len(e) |-> NormalizeEntry(e[k], ArrMin(e), ArrMax(e))]

RawEnergy(fr) == [k \in 1..Len(fr) |-> Rms(fr[k])]

EnergyProfile(fr) ==
    IF fr.err # "none" THEN fr
    ELSE IF Len(fr.val) = 0 THEN Raised("ValueError")
    ELSE Returned(Normalize(RawEnergy(fr.val)))

SampleValues == {-1, 0, MaxSample}

\* No generator at work.
\* No second generator.
NoPeer ==
    [gen |-> "none", i |-> 0, frames |-> <<>>, particles |-> <<>>,
     bokeh_points |-> <<>>, current_pattern |-> 0, pc |-> "idle",
     err |-> "none", clip |-> [image |-> <<>>, duration |-> 0]]

GenIdle ==
    /\ peer = NoPeer
    /\ gen = "none"
    /\ energy_profile = <<>>
    /\ sync_points = <<>>
    /\ rng = [tape |-> <<>>, pos |-> 0]
    /\ frame_i = 0
    /\ frames = <<>>
    /\ particles = <<>>
    /\ bokeh_points = <<>>
    /\ current_pattern = 0
    /\ gpc = "idle"
    /\ gerr = "none"
    /\ clip = [image |-> <<>>, duration |-> 0]
    /\ earlier = <<>>

\* generate_background not called.
BgIdle ==
    /\ theme = "none"
    /\ duration = 0
    /\ effects = <<>>
    /\ final_clip = [layers |-> <<>>, duration |-> 0]
    /\ video = [written |-> FALSE, n_frames |-> 0, duration |-> 0]
    /\ bg_err = "none"
    /\ bpc = "idle"

EnergyInit ==
    /\ y \in SeqsUpTo(SampleValues, MaxLen)
    /\ frame_length \in (-1)..MaxFrameLength
    /\ hop_length \in (-1)..MaxHop
    /\ framed = NotCalled
    /\ energy = NotCalled
    /\ epc = "start"
    /\ GenIdle
    /\ BgIdle

CalculateEnergyProfile ==
    /\ epc = "start"
    /\ framed' = FrameSignal(y, frame_length, hop_length)
    /\ energy' = EnergyProfile(framed')
    /\ epc' = "done"
    /\ UNCHANGED <<y, frame_length, hop_length>>
    /\ UNCHANGED <<genVars, peer, bgVars>>

EnergyNext == CalculateEnergyProfile

SpecEnergy == EnergyInit /\ [][EnergyNext]_vars

(***************************************************************************)
(* Claims about the energy profile (checked under SpecEnergy).             *)
(***************************************************************************)
ValidEnergyInput ==
    /\ frame_length > 0
    /\ hop_length > 0
    /\ Len(y) >= frame_length

\* The raw per-frame RMS values of the frames _frame_signal returned.
RawOfFramed == RawEnergy(framed.val)

AllRawEqual ==
    \A j, k \in 1..Len(RawOfFramed) : RawOfFramed[j] = RawOfFramed[k]

\* C2: for a valid input whose per-frame RMS values are not all equal, the
\* profile is returned, its minimum is exactly 0, its maximum exactly 1
\* (Scale in fixed point) and every entry lies in [0, 1].
C2_MinZeroMaxOne ==
    (epc = "done" /\ ValidEnergyInput /\ framed.err = "none" /\ ~AllRawEqual)
        => /\ energy.err = "none"
           /\ Len(energy.val) = Len(framed.val)
           /\ \A k \in 1..Len(energy.val) :
                  energy.val[k] # NaN /\ 0 <= energy.val[k]
                                      /\ energy.val[k] <= Scale
           /\ \E k \in 1..Len(energy.val) : energy.val[k] = 0
           /\ \E k \in 1..Len(energy.val) : energy.val[k] = Scale

\* A valid input with three distinct levels: the minimum, the maximum and an
\* entry strictly between them, whose minimum RMS is not 0.
C2_Witness ==
    /\ epc = "done" /\ ValidEnergyInput /\ framed.err = "none"
    /\ ~AllRawEqual
    /\ \A k \in 1..Len(RawOfFramed) : RawOfFramed[k] > 0
    /\ \E k \in 1..Len(energy.val) :
           0 < energy.val[k] /\ energy.val[k] < Scale

\* C3: when all per-frame RMS values are equal the profile returned is the
\* fixed fallback of all zeros, never NaN and never an error.
C3_DegenerateIsAllZeros ==
    (epc = "done" /\ ValidEnergyInput /\ framed.err = "none" /\ AllRawEqual)
        => /\ energy.err = "none"
           /\ Len(energy.val) = Len(framed.val)
           /\ \A k \in 1..Len(energy.val) : energy.val[k] = 0

\* C4: for N >= frame_length there are exactly
\* 1 + floor((N - frame_length) / hop_length) frames, frame i is the
\* frame_length samples from i*hop_length on, and the samples after the last
\* frame, too few to fill another one, are in no frame.
C4_FrameCountAndCoverage ==
    (epc = "done" /\ ValidEnergyInput)
        => LET n == 1 + ((Len(y) - frame_length) \div hop_length)
           IN  /\ framed.err = "none"
               /\ Len(framed.val) = n
               /\ energy.err = "none" /\ Len(energy.val) = n
               /\ \A i \in 0..(n - 1) :
                      /\ Len(framed.val[i + 1]) = frame_length
                      /\ \A j \in 1..frame_length :
                             framed.val[i + 1][j] = y[i * hop_length + j]
               /\ (n - 1) * hop_length + frame_length <= Len(y)
               /\ n * hop_length + frame_length > Len(y)

\* Overlapping frames with samples left over after the last frame.
C4_Witness ==
    /\ epc = "done" /\ ValidEnergyInput
    /\ hop_length < frame_length
    /\ Len(framed.val) >= 2
    /\ (Len(framed.val) - 1) * hop_length + frame_length < Len(y)

\* C5: no profile is returned when N < frame_length, nor when frame_length
\* or hop_length is not positive: the call ends in an error.
C5_InvalidInputRaises ==
    (epc = "done" /\ ~ValidEnergyInput) => energy.err # "none"

(***************************************************************************)
(* VideoGenerator (src/src/video/generator.py).                            *)
(*                                                                         *)
(* Units.  A time is a number of ticks, TicksPerFrame ticks to the frame   *)
(* period 1/fps.  A position is a number of sub-pixels, PosDen to the      *)
(* pixel.  An energy or a strength is a number of Scale-ths.  An angle is  *)
(* a number of quarter turns.                                              *)
(***************************************************************************)
MaxProfileLen == 2
MaxSync == 2
TapeLen == 3
TicksPerFrame == 10
PosDen == 4
FloatExact == 8

\* self.fps, self.width, self.height (the canvas is scaled down).
fps == 30
width == 4
height == 2
\* num_particles and the number of bokeh points (scaled down).
num_particles == 1
num_bokeh_points == 1

TicksPerSec == fps * TicksPerFrame

(***************************************************************************)
(* IEEE doubles, at reduced precision: an integer below FloatExact is      *)
(* exact, a larger one is rounded to the nearest value with as many        *)
(* significant bits, ties to the even one.  Python's float % is fmod, then *)
(* one rounded addition of the divisor when the signs differ.              *)
(***************************************************************************)
RECURSIVE Quantum(_, _)
Quantum(a, q) == IF a < FloatExact * q THEN q ELSE Quantum(a, 2 * q)

FRound(v) ==
    LET a == Abs(v)
        q == Quantum(a, 1)
        lo == (a \div q) * q
        r == a - lo
        up == IF 2 * r > q THEN TRUE
              ELSE IF 2 * r < q THEN FALSE
              ELSE (lo \div q) % 2 = 1
        res == IF up THEN lo + q ELSE lo
    IN  IF v < 0 THEN -res ELSE res

Fmod(v, w) == IF v >= 0 THEN v % w ELSE -((-v) % w)

\* v % w for floats, w > 0.
PyFloatMod(v, w) ==
    LET m == Fmod(v, w)
    IN  IF m < 0 THEN FRound(m + w) ELSE m

\* int(a / d) for a float: truncation toward zero.
TruncDiv(a, d) == IF a >= 0 THEN a \div d ELSE -((-a) \div d)

(***************************************************************************)
(* The random module.  Its generator is one object of the process: every   *)
(* call of random.randint and random.uniform, from whichever generator,    *)
(* advances the same state.  The seed is the stream it produces (tape);    *)
(* pos is how far the process has read it.  A raw value is random() in     *)
(* RawDen-ths.                                                             *)
(***************************************************************************)
RawDen == 2 * PosDen
RawValues == {0, RawDen \div 2 - 1, RawDen - 1}

Seeds == [1..TapeLen -> RawValues]

\* The k-th next raw value (k = 0 for the next one).
Rand(r, k) == r.tape[((r.pos + k) % Len(r.tape)) + 1]
Skip(r, n) == [r EXCEPT !.pos = (r.pos + n) % Len(r.tape)]

\* random.randint(a, b): both ends included.
RandInt(raw, a, b) == a + ((raw * (b - a + 1)) \div RawDen)
\* random.uniform(a, b) = a + (b - a) * random()
Uniform(raw, a, b) == a + ((raw * (b - a)) \div RawDen)

(***************************************************************************)
(* What the four generators share.                                         *)
(***************************************************************************)
\* duration = len(energy_profile) / self.fps, and for the light flares
\* duration = sync_points[-1][0] if sync_points else 5.0; in ticks.
Duration(g, ep, sp) ==
    IF g = "flares"
    THEN IF sp # <<>> THEN sp[Len(sp)][1] ELSE 5 * TicksPerSec
    ELSE Len(ep) * TicksPerFrame

\* int(duration * self.fps)
NumFrames(d) == (d * fps) \div TicksPerSec

\* The energy of the frame after.
EnergyAtNextFrame(ep, k) == ep[Min(k + 1, Len(ep) - 1) + 1]

\* energy_profile[min(i, len(energy_profile) - 1)]
EnergyAt(ep, k) == ep[Min(k, Len(ep) - 1) + 1]

\* abs(time - i / self.fps) < 0.1, the fractions cleared.
Near(time, k) ==
    10 * Abs(time * fps - k * TicksPerSec) < TicksPerSec * fps

\* The locals of a generator at work.
Locals(r, k, fr, ps, bs, cp, pc, err, c) ==
    [rng |-> r, i |-> k, frames |-> fr, particles |-> ps, bokeh_points |-> bs,
     current_pattern |-> cp, pc |-> pc, err |-> err, clip |-> c]

NoClip == [image |-> <<>>, duration |-> 0]

Raise(loc, kind) == [loc EXCEPT !.pc = "raised", !.err = kind]

\* clip = ImageClip(frames[0]).set_duration(duration): the clip is the one
\* image frames[0], shown for the duration; frames[0] of an empty list
\* raises IndexError.
Convert(loc, d) ==
    IF loc.frames = <<>> THEN Raise(loc, "IndexError")
    ELSE [loc EXCEPT !.pc = "returned",
                     !.clip = [image |-> <<loc.frames[1]>>, duration |-> d]]

\* The frame a clip shows at its k-th frame time (k from 0): an ImageClip
\* shows its image at every time.
ClipFrameAt(c, k) == c.image[Min(k + 1, Len(c.image))]

\* The number of frame times in a clip's duration.
ClipLength(c) == NumFrames(c.duration)

(***************************************************************************)
(* VideoGenerator._create_particle_system                                  *)
(***************************************************************************)
CosQ(a) == CASE a % 4 = 0 -> 1 [] a % 4 = 1 -> 0 [] a % 4 = 2 -> -1 [] OTHER -> 0
SinQ(a) == CASE a % 4 = 0 -> 0 [] a % 4 = 1 -> 1 [] a % 4 = 2 -> 0 [] OTHER -> -1

\* The p-th particle (p from 0) takes five values of the stream.
NewParticle(r, p) ==
    [x |-> RandInt(Rand(r, 5 * p), 0, width) * PosDen,
     y |-> RandInt(Rand(r, 5 * p + 1), 0, height) * PosDen,
     size |-> RandInt(Rand(r, 5 * p + 2), 2, 8),
     speed |-> FRound(Uniform(Rand(r, 5 * p + 3), 2 * PosDen, 5 * PosDen)),
     angle |-> Uniform(Rand(r, 5 * p + 4), 0, 4)]

ParticleBegin(r) ==
    Locals(Skip(r, 5 * num_particles), 0, <<>>,
           [p \in 1..num_particles |-> NewParticle(r, p - 1)],
           <<>>, 0, "loop", "none", NoClip)

\* x += cos(angle) * speed * energy; x = x % self.width (and y likewise);
\* angle += random.uniform(-0.1, 0.1), one quantum of angle either way.
MoveParticle(pt, e, raw) ==
    [pt EXCEPT
       !.x = PyFloatMod(FRound(pt.x + ((CosQ(pt.angle) * pt.speed * e) \div Scale)),
                        width * PosDen),
       !.y = PyFloatMod(FRound(pt.y + ((SinQ(pt.angle) * pt.speed * e) \div Scale)),
                        height * PosDen),
       !.angle = (pt.angle + Uniform(raw, -1, 2)) % 4]

\* cv2.circle(frame, (int(x), int(y)), int(size * (1 + energy)),
\*            (255, 255, 255, int(255 * energy)), -1)
DrawParticle(pt, e) ==
    [x |-> TruncDiv(pt.x, PosDen), y |-> TruncDiv(pt.y, PosDen),
     size |-> (pt.size * (Scale + e)) \div Scale,
     alpha |-> (255 * e) \div Scale]

\* One pass of the frame loop.  With a NaN energy, int(size * (1 + energy))
\* raises ValueError at the first particle.
ParticleFrame(ep, loc) ==
    LET e == EnergyAt(ep, loc.i)
        moved == [p \in 1..Len(loc.particles) |->
                      MoveParticle(loc.particles[p], e, Rand(loc.rng, p - 1))]
    IN  IF e = NaN /\ Len(loc.particles) > 0
        THEN Raise(loc, "ValueError")
        ELSE [loc EXCEPT
                !.particles = moved,
                !.rng = Skip(loc.rng, Len(loc.particles)),
                !.frames = Append(loc.frames,
                    [step |-> loc.i,
                     shapes |-> [p \in 1..Len(moved) |-> DrawParticle(moved[p], e)]]),
                !.i = loc.i + 1]

(***************************************************************************)
(* VideoGenerator._create_bokeh_effects                                    *)
(***************************************************************************)
\* The p-th bokeh point (p from 0) takes six values of the stream.
NewBokehPoint(r, p) ==
    [x |-> RandInt(Rand(r, 6 * p), 0, width) * PosDen,
     y |-> RandInt(Rand(r, 6 * p + 1), 0, height) * PosDen,
     size |-> RandInt(Rand(r, 6 * p + 2), 20, 100),
     color |-> <<RandInt(Rand(r, 6 * p + 3), 200, 255),
                 RandInt(Rand(r, 6 * p + 4), 200, 255),
                 RandInt(Rand(r, 6 * p + 5), 200, 255)>>]

BokehBegin(r) ==
    Locals(Skip(r, 6 * num_bokeh_points), 0, <<>>, <<>>,
           [p \in 1..num_bokeh_points |-> NewBokehPoint(r, p - 1)],
           0, "loop", "none", NoClip)

\* current_size = int(point['size'] * (0.5 + energy)); the point is pasted
\* where it is before it moves.
DrawBokeh(pt, e) ==
    [cx |-> pt.x, cy |-> pt.y,
     current_size |-> (pt.size * ((Scale \div 2) + e)) \div Scale,
     color |-> pt.color]

\* point['x'] += random.uniform(-1, 1); point['x'] = point['x'] % self.width
MoveBokeh(pt, rawx, rawy) ==
    [pt EXCEPT
       !.x = PyFloatMod(FRound(pt.x + Uniform(rawx, -PosDen, PosDen)),
                        width * PosDen),
       !.y = PyFloatMod(FRound(pt.y + Uniform(rawy, -PosDen, PosDen)),
                        height * PosDen)]

\* One pass of the frame loop.  With a NaN energy, int(size * (0.5 + energy))
\* raises ValueError at the first point.
BokehFrame(ep, loc) ==
    LET e == EnergyAt(ep, loc.i)
        pts == loc.bokeh_points
    IN  IF e = NaN /\ Len(pts) > 0
        THEN Raise(loc, "ValueError")
        ELSE [loc EXCEPT
                !.bokeh_points = [p \in 1..Len(pts) |->
                    MoveBokeh(pts[p], Rand(loc.rng, 2 * (p - 1)),
                              Rand(loc.rng, 2 * (p - 1) + 1))],
                !.rng = Skip(loc.rng, 2 * Len(pts)),
                !.frames = Append(loc.frames,
                    [step |-> loc.i,
                     shapes |-> [p \in 1..Len(pts) |-> DrawBokeh(pts[p], e)]]),
                !.i = loc.i + 1]

(***************************************************************************)
(* VideoGenerator._create_geometric_patterns                               *)
(***************************************************************************)
pattern_types == <<"circles", "triangles", "squares">>

PatternsBegin(r) ==
    Locals(r, 0, <<>>, <<>>, <<>>, 0, "loop", "none", NoClip)

\* A pattern change held to one per frame.
AdvancePatternOncePerFrame(cp, sp, k) ==
    IF \E j \in 1..Len(sp) : Near(sp[j][1], k)
    THEN (cp + 1) % Len(pattern_types)
    ELSE cp

\* for time, strength in sync_points:
\*     if abs(time - i/self.fps) < 0.1:
\*         current_pattern = (current_pattern + 1) % len(pattern_types)
RECURSIVE AdvancePatternFrom(_, _, _, _)
AdvancePatternFrom(cp, sp, k, j) ==
    IF j > Len(sp) THEN cp
    ELSE AdvancePatternFrom(
             IF Near(sp[j][1], k) THEN (cp + 1) % Len(pattern_types) ELSE cp,
             sp, k, j + 1)

AdvancePattern(cp, sp, k) == AdvancePatternFrom(cp, sp, k, 1)

\* int(10 * energy) circles, int(8 * energy) triangles, int(6 * energy) squares
ShapeCount(cp, e) ==
    CASE pattern_types[cp + 1] = "circles" -> (10 * e) \div Scale
      [] pattern_types[cp + 1] = "triangles" -> (8 * e) \div Scale
      [] OTHER -> (6 * e) \div Scale

\* The q-th shape of a frame (q from 0) takes three values of the stream:
\* its size, then x and y, which for circles and squares may lie off the
\* canvas by up to the size.
NewShape(cp, r, q) ==
    LET kind == pattern_types[cp + 1]
        size == CASE kind = "circles" -> RandInt(Rand(r, 3 * q), 50, 200)
                  [] kind = "triangles" -> RandInt(Rand(r, 3 * q), 50, 150)
                  [] OTHER -> RandInt(Rand(r, 3 * q), 40, 120)
        off == IF kind = "triangles" THEN 0 ELSE size
    IN  [size |-> size,
         x |-> RandInt(Rand(r, 3 * q + 1), -off, width + off),
         y |-> RandInt(Rand(r, 3 * q + 2), -off, height + off)]

\* A pass of the frame loop that draws with the pattern the frame began
\* with, and changes the pattern after.
PatternsFrameDrawsOldPattern(ep, sp, loc) ==
    LET e == EnergyAt(ep, loc.i)
        cp == AdvancePattern(loc.current_pattern, sp, loc.i)
        n == ShapeCount(loc.current_pattern, e)
    IN  IF e = NaN
        THEN Raise([loc EXCEPT !.current_pattern = cp], "ValueError")
        ELSE [loc EXCEPT
                !.current_pattern = cp,
                !.rng = Skip(loc.rng, 3 * n),
                !.frames = Append(loc.frames,
                    [step |-> loc.i,
                     pattern |-> pattern_types[loc.current_pattern + 1],
                     alpha |-> (255 * e) \div Scale,
                     shapes |-> [q \in 1..n |->
                         NewShape(loc.current_pattern, loc.rng, q - 1)]]),
                !.i = loc.i + 1]

\* One pass of the frame loop.  The pattern changes first; with a NaN energy
\* int(10 * energy) then raises ValueError.
PatternsFrame(ep, sp, loc) ==
    LET e == EnergyAt(ep, loc.i)
        cp == AdvancePattern(loc.current_pattern, sp, loc.i)
        n == ShapeCount(cp, e)
    IN  IF e = NaN
        THEN Raise([loc EXCEPT !.current_pattern = cp], "ValueError")
        ELSE [loc EXCEPT
                !.current_pattern = cp,
                !.rng = Skip(loc.rng, 3 * n),
                !.frames = Append(loc.frames,
                    [step |-> loc.i,
                     pattern |-> pattern_types[cp + 1],
                     alpha |-> (255 * e) \div Scale,
                     shapes |-> [q \in 1..n |-> NewShape(cp, loc.rng, q - 1)]]),
                !.i = loc.i + 1]

(***************************************************************************)
(* VideoGenerator._create_light_flares                                     *)
(***************************************************************************)
FlaresBegin(r) ==
    Locals(r, 0, <<>>, <<>>, <<>>, 0, "loop", "none", NoClip)

\* The sync points within 0.1 s of frame k, in the order of the list.
RECURSIVE NearbyFrom(_, _, _)
NearbyFrom(sp, k, j) ==
    IF j > Len(sp) THEN <<>>
    ELSE IF Near(sp[j][1], k) THEN <<sp[j]>> \o NearbyFrom(sp, k, j + 1)
    ELSE NearbyFrom(sp, k, j + 1)

Nearby(sp, k) == NearbyFrom(sp, k, 1)

\* The q-th flare of a frame (q from 0) takes ten values of the stream: x, y
\* and the eight streak lengths.  opacity is that of the widest circle of
\* the gradient, int(255 * (1 - time_diff*10) * (radius/flare_size) * strength)
\* at radius = flare_size; the circles inside it are fainter, and there is
\* none when flare_size is 0.
NewFlare(pt, k, r, q) ==
    LET time_diff == Abs(k * TicksPerFrame - pt[1])
        strength == pt[2]
    IN  [flare_size |-> (500 * strength) \div Scale,
         x |-> RandInt(Rand(r, 10 * q), 0, width),
         y |-> RandInt(Rand(r, 10 * q + 1), 0, height),
         opacity |-> (255 * (TicksPerSec - 10 * time_diff) * strength)
                         \div (TicksPerSec * Scale),
         streaks |-> [a \in 1..8 |-> RandInt(Rand(r, 10 * q + 1 + a), 100, 300)],
         streak_alpha |-> (127 * strength) \div Scale]

\* One pass of the frame loop (the Gaussian blur spreads what was drawn and
\* leaves an empty frame empty).
FlaresFrame(sp, loc) ==
    LET near == Nearby(sp, loc.i)
    IN  [loc EXCEPT
           !.rng = Skip(loc.rng, 10 * Len(near)),
           !.frames = Append(loc.frames,
               [step |-> loc.i,
                shapes |-> [q \in 1..Len(near) |->
                                NewFlare(near[q], loc.i, loc.rng, q - 1)]]),
           !.i = loc.i + 1]

\* Whether a light-flare frame has a pixel of nonzero alpha.
FlareVisible(fl) ==
    (fl.flare_size > 0 /\ fl.opacity > 0) \/ fl.streak_alpha > 0
FrameVisible(fr) == \E q \in 1..Len(fr.shapes) : FlareVisible(fr.shapes[q])

(***************************************************************************)
(* One generator call as a state machine: Begin, one step per pass of the  *)
(* frame loop, and the conversion of the frames to the clip returned.      *)
(***************************************************************************)
Begin(g, r) ==
    CASE g = "particle" -> ParticleBegin(r)
      [] g = "patterns" -> PatternsBegin(r)
      [] g = "flares" -> FlaresBegin(r)
      [] OTHER -> BokehBegin(r)

Frame(g, ep, sp, loc) ==
    CASE g = "particle" -> ParticleFrame(ep, loc)
      [] g = "patterns" -> PatternsFrame(ep, sp, loc)
      [] g = "flares" -> FlaresFrame(sp, loc)
      [] OTHER -> BokehFrame(ep, loc)

CurrentLocals ==
    Locals(rng, frame_i, frames, particles, bokeh_points, current_pattern,
           gpc, gerr, clip)

Becomes(loc) ==
    /\ rng' = loc.rng
    /\ frame_i' = loc.i
    /\ frames' = loc.frames
    /\ particles' = loc.particles
    /\ bokeh_points' = loc.bokeh_points
    /\ current_pattern' = loc.current_pattern
    /\ gpc' = loc.pc
    /\ gerr' = loc.err
    /\ clip' = loc.clip

GenBegin(g) ==
    /\ gen = g /\ gpc = "start"
    /\ Becomes(Begin(g, rng))
    /\ UNCHANGED <<energyVars, peer, genArgs, earlier, bgVars>>

GenFrame(g) ==
    /\ gen = g /\ gpc = "loop"
    /\ frame_i < NumFrames(Duration(g, energy_profile, sync_points))
    /\ Becomes(Frame(g, energy_profile, sync_points, CurrentLocals))
    /\ UNCHANGED <<energyVars, peer, genArgs, earlier, bgVars>>

GenConvert(g) ==
    /\ gen = g /\ gpc = "loop"
    /\ frame_i >= NumFrames(Duration(g, energy_profile, sync_points))
    /\ Becomes(Convert(CurrentLocals, Duration(g, energy_profile, sync_points)))
    /\ UNCHANGED <<energyVars, peer, genArgs, earlier, bgVars>>

CreateParticleSystemBegin == GenBegin("particle")
CreateParticleSystemFrame == GenFrame("particle")
CreateParticleSystemConvert == GenConvert("particle")
CreateGeometricPatternsBegin == GenBegin("patterns")
CreateGeometricPatternsFrame == GenFrame("patterns")
CreateGeometricPatternsConvert == GenConvert("patterns")
CreateLightFlaresBegin == GenBegin("flares")
CreateLightFlaresFrame == GenFrame("flares")
CreateLightFlaresConvert == GenConvert("flares")
CreateBokehEffectsBegin == GenBegin("bokeh")
CreateBokehEffectsFrame == GenFrame("bokeh")
CreateBokehEffectsConvert == GenConvert("bokeh")

(***************************************************************************)
(* The arguments of a generator call.                                      *)
(***************************************************************************)
EnergyIdle ==
    /\ y = <<>> /\ frame_length = 1 /\ hop_length = 1
    /\ framed = NotCalled /\ energy = NotCalled /\ epc = "idle"

\* An energy profile entry: what _calculate_energy_profile can return.
EnergyValues == {0, Scale, NaN}
Profiles == SeqsUpTo(EnergyValues, MaxProfileLen)

\* Sync point times (0, three and a half frame periods, one second) and
\* strengths (0 and 0.8).
SyncTimes == {0, 3 * TicksPerFrame + (TicksPerFrame \div 2), TicksPerSec}
SyncStrengths == {0, (8 * Scale) \div 10}

\* Sync points come ordered by time.
Ascending(sp) == \A j \in 1..(Len(sp) - 1) : sp[j][1] <= sp[j + 1][1]
SyncLists(strengths) ==
    {sp \in SeqsUpTo(SyncTimes \X strengths, MaxSync) : Ascending(sp)}

\* The call starts with the random module in whatever state the process
\* left it: seeded, and read up to some point.
GenCall ==
    /\ peer = NoPeer
    /\ gen \in {"particle", "patterns", "flares", "bokeh"}
    /\ energy_profile \in (IF gen = "flares" THEN {<<>>} ELSE Profiles)
    /\ sync_points \in
           (CASE gen = "flares" -> SyncLists(SyncStrengths)
              [] gen = "patterns" -> SyncLists({(8 * Scale) \div 10})
              [] OTHER -> {<<>>})
    /\ rng \in [tape : Seeds, pos : {0}]
    /\ frame_i = 0
    /\ frames = <<>>
    /\ particles = <<>>
    /\ bokeh_points = <<>>
    /\ current_pattern = 0
    /\ gpc = "start"
    /\ gerr = "none"
    /\ clip = NoClip
    /\ earlier = <<>>

GenInit == EnergyIdle /\ GenCall /\ BgIdle

GenNext ==
    \/ CreateParticleSystemBegin
    \/ CreateParticleSystemFrame
    \/ CreateParticleSystemConvert
    \/ CreateGeometricPatternsBegin
    \/ CreateGeometricPatternsFrame
    \/ CreateGeometricPatternsConvert
    \/ CreateLightFlaresBegin
    \/ CreateLightFlaresFrame
    \/ CreateLightFlaresConvert
    \/ CreateBokehEffectsBegin
    \/ CreateBokehEffectsFrame
    \/ CreateBokehEffectsConvert

SpecGen == GenInit /\ [][GenNext]_vars

(***************************************************************************)
(* The same generator called again in the same process, with the same      *)
(* arguments: its locals are new, the random module's state is where the   *)
(* earlier call left it.                                                   *)
(***************************************************************************)
MaxCalls == 2

Outcome == [pc |-> gpc, err |-> gerr, clip |-> clip, frames |-> frames]

CallAgain ==
    /\ gpc \in {"returned", "raised"}
    /\ Len(earlier) + 1 < MaxCalls
    /\ earlier' = Append(earlier, Outcome)
    /\ frame_i' = 0
    /\ frames' = <<>>
    /\ particles' = <<>>
    /\ bokeh_points' = <<>>
    /\ current_pattern' = 0
    /\ gpc' = "start"
    /\ gerr' = "none"
    /\ clip' = NoClip
    /\ UNCHANGED <<rng, energyVars, peer, genArgs, bgVars>>

TwiceNext == GenNext \/ CallAgain

SpecTwice == GenInit /\ [][TwiceNext]_vars

(***************************************************************************)
(* Claims about one generator call (checked under SpecGen).                *)
(***************************************************************************)
TheDuration == Duration(gen, energy_profile, sync_points)

\* C1: the clip a generator returns for a run of duration d holds exactly
\* floor(d * fps) frames, the frame of step i at place i, for every step i
\* of the simulation.
C1_ClipHoldsEveryFrame ==
    gpc = "returned"
        => /\ ClipLength(clip) = NumFrames(TheDuration)
           /\ Len(frames) = NumFrames(TheDuration)
           /\ \A k \in 0..(ClipLength(clip) - 1) :
                  /\ ClipFrameAt(clip, k) = frames[k + 1]
                  /\ ClipFrameAt(clip, k).step = k

\* C6: after every simulation step every particle and every bokeh point has
\* 0 <= x < width and 0 <= y < height.
InCanvas(pt) ==
    /\ 0 <= pt.x /\ pt.x < width * PosDen
    /\ 0 <= pt.y /\ pt.y < height * PosDen

C6_PositionsWrapped ==
    (gpc \in {"loop", "returned"} /\ frame_i >= 1)
        => /\ \A p \in 1..Len(particles) : InCanvas(particles[p])
           /\ \A p \in 1..Len(bokeh_points) : InCanvas(bokeh_points[p])

\* The (sync point, frame) pairs that qualify among the first n frames.
Triggers(n) ==
    {jk \in (1..Len(sync_points)) \X (0..(n - 1)) :
         Near(sync_points[jk[1]][1], jk[2])}

\* C7: the pattern index starts at 0 and, after any prefix of frames with N
\* qualifying (sync point, frame) triggers in all, is N mod 3 in the cycle
\* circles, triangles, squares; each frame is drawn with the pattern of the
\* index its own triggers leave.
C7_PatternIsTriggersMod3 ==
    (gen = "patterns" /\ (gpc \in {"loop", "returned"} \/ gerr = "IndexError"))
        => /\ current_pattern = Cardinality(Triggers(frame_i)) % 3
           /\ \A k \in 1..Len(frames) :
                  frames[k].pattern =
                      <<"circles", "triangles", "squares">>
                          [(Cardinality(Triggers(k)) % 3) + 1]

\* Four triggers in two frames: the index has gone round the cycle once.
C7_Witness ==
    /\ gen = "patterns" /\ gpc = "returned"
    /\ Cardinality(Triggers(frame_i)) = 4
    /\ current_pattern = 1
    /\ frames[1].pattern = "squares"

\* C9: in the light-flare clip a frame 0.1 s or more from every sync point
\* is fully transparent, and every frame time within 0.1 s of a sync point
\* (of positive strength), before or after it, is a frame of the clip with
\* pixels of nonzero alpha.
C9_FlareFramesFollowSyncPoints ==
    (gen = "flares" /\ gpc = "returned")
        => /\ \A k \in 0..(ClipLength(clip) - 1) :
                  (\A j \in 1..Len(sync_points) : ~Near(sync_points[j][1], k))
                      => ~FrameVisible(ClipFrameAt(clip, k))
           /\ \A j \in 1..Len(sync_points) :
                  \A k \in 0..(NumFrames(sync_points[j][1]) + 3) :
                      (sync_points[j][2] > 0 /\ Near(sync_points[j][1], k))
                          => /\ k < ClipLength(clip)
                             /\ FrameVisible(ClipFrameAt(clip, k))

\* C8: two calls of one generator with the same seed and the same arguments
\* give the same frames: what a call draws at random does not depend on a
\* call made before it.  (Checked under SpecTwice.)
C8_SameSeedSameFrames ==
    (gpc \in {"returned", "raised"})
        => \A c \in 1..Len(earlier) : earlier[c] = Outcome

(***************************************************************************)
(* VideoGenerator.generate_background, with _generate_effects and the      *)
(* generators it calls: the call's position is bpc, and while it is        *)
(* "effects" the generator gen is at work.                                 *)
(***************************************************************************)
supported_themes == {"realistic", "animated", "abstract", "cinematic"}

\* A theme compared as it is written.
LowerNothing(t) == t

\* theme.lower()
Lower(t) ==
    CASE t = "ABSTRACT" -> "abstract"
      [] t = "Realistic" -> "realistic"
      [] OTHER -> t

\* The two lists with their generators called in the other order.
ThemeGeneratorsSwapped(t) ==
    CASE t \in {"abstract", "ABSTRACT"} -> <<"patterns", "particle">>
      [] t \in {"realistic", "Realistic"} -> <<"bokeh", "flares">>
      [] OTHER -> <<>>

\* The generators _generate_abstract_effects and _generate_realistic_effects
\* call, in the order of the calls.
ThemeGenerators(t) ==
    CASE Lower(t) = "abstract" -> <<"particle", "patterns">>
      [] Lower(t) = "realistic" -> <<"flares", "bokeh">>
      [] OTHER -> <<>>

RECURSIVE MaxDuration(_)
MaxDuration(cs) ==
    IF cs = <<>> THEN 0
    ELSE Max(cs[1].clip.duration, MaxDuration(Tail(cs)))

\* A composite that stacks its clips the other way round, the base on top.
CompositeVideoClipBaseOnTop(cs) ==
    [layers |-> [j \in 1..Len(cs) |-> cs[Len(cs) + 1 - j]],
     duration |-> MaxDuration(cs)]

\* CompositeVideoClip(clips): the clips as layers, the first at the bottom;
\* it lasts until the last of its clips ends.
CompositeVideoClip(cs) == [layers |-> cs, duration |-> MaxDuration(cs)]

\* ColorClip((self.width, self.height), color=(0, 0, 0), duration=duration)
ColorClip(d) ==
    [kind |-> "base", clip |-> [image |-> <<"black">>, duration |-> d]]

\* write_videofile(..., fps=self.fps): one frame for every frame time
\* before the end of the clip.
WriteVideofile(c) ==
    [written |-> TRUE,
     n_frames |-> (c.duration * fps + TicksPerSec - 1) \div TicksPerSec,
     duration |-> c.duration]

NotWritten == [written |-> FALSE, n_frames |-> 0, duration |-> 0]
NoComposite == [layers |-> <<>>, duration |-> 0]

FreshLocals ==
    /\ frame_i' = 0
    /\ frames' = <<>>
    /\ particles' = <<>>
    /\ bokeh_points' = <<>>
    /\ current_pattern' = 0
    /\ gerr' = "none"
    /\ clip' = NoClip

\* if theme.lower() not in self.supported_themes: raise ValueError(...)
RejectTheme ==
    /\ bpc = "start"
    /\ Lower(theme) \notin supported_themes
    /\ bg_err' = "ValueError"
    /\ bpc' = "done"
    /\ UNCHANGED <<energyVars, peer, genVars, theme, duration, effects, final_clip,
                   video>>

\* base_clip = ColorClip(...); _generate_effects calls the theme's method:
\* 'abstract' and 'realistic' start their first generator.
StartEffects ==
    /\ bpc = "start"
    /\ Lower(theme) \in {"abstract", "realistic"}
    /\ gen' = ThemeGenerators(theme)[1]
    /\ gpc' = "start"
    /\ bpc' = "effects"
    /\ UNCHANGED <<energyVars, peer, energy_profile, sync_points, rng, frame_i,
                   frames, particles, bokeh_points, current_pattern, gerr,
                   clip, earlier, theme, duration, effects, final_clip, video,
                   bg_err>>

\* 'animated' and 'cinematic' call self._generate_animated_effects and
\* self._generate_cinematic_effects, which the class does not define:
\* AttributeError, logged and raised again by generate_background.
MissingEffects ==
    /\ bpc = "start"
    /\ Lower(theme) \in {"animated", "cinematic"}
    /\ bg_err' = "AttributeError"
    /\ bpc' = "done"
    /\ UNCHANGED <<energyVars, peer, genVars, theme, duration, effects, final_clip,
                   video>>

\* effects.append(clip), and the theme's next generator starts, the random
\* module where the last one left it.
NextEffect ==
    /\ bpc = "effects" /\ gpc = "returned"
    /\ Len(effects) + 1 < Len(ThemeGenerators(theme))
    /\ effects' = Append(effects, [kind |-> gen, clip |-> clip])
    /\ gen' = ThemeGenerators(theme)[Len(effects) + 2]
    /\ gpc' = "start"
    /\ FreshLocals
    /\ UNCHANGED <<energyVars, peer, energy_profile, sync_points, rng, earlier,
                   theme, duration, final_clip, video, bg_err, bpc>>

\* An exception of a generator is logged and raised again.
EffectRaised ==
    /\ bpc = "effects" /\ gpc = "raised"
    /\ bg_err' = gerr
    /\ bpc' = "done"
    /\ UNCHANGED <<energyVars, peer, genVars, theme, duration, effects, final_clip,
                   video>>

\* final_clip = CompositeVideoClip([base_clip] + effects);
\* final_clip.write_videofile(temp_file.name, fps=self.fps, ...)
CompositeAndWrite ==
    /\ bpc = "effects" /\ gpc = "returned"
    /\ Len(effects) + 1 = Len(ThemeGenerators(theme))
    /\ effects' = Append(effects, [kind |-> gen, clip |-> clip])
    /\ final_clip' = CompositeVideoClip(<<ColorClip(duration)>> \o effects')
    /\ video' = WriteVideofile(final_clip')
    /\ bpc' = "done"
    /\ UNCHANGED <<energyVars, peer, genArgs, genLocals, earlier, theme, duration,
                   bg_err>>

Themes == supported_themes \cup {"ABSTRACT", "Realistic", "noir"}
Durations == {TicksPerFrame, 3 * TicksPerFrame}

\* The seeds whose stream repeats one value.
ConstantSeeds == {[k \in 1..TapeLen |-> v] : v \in RawValues}

BgInit ==
    /\ EnergyIdle
    /\ theme \in Themes
    /\ duration \in Durations
    /\ energy_profile \in Profiles
    /\ sync_points \in SyncLists({(8 * Scale) \div 10})
    /\ rng \in [tape : ConstantSeeds, pos : {0}]
    /\ peer = NoPeer
    /\ gen = "none"
    /\ frame_i = 0
    /\ frames = <<>>
    /\ particles = <<>>
    /\ bokeh_points = <<>>
    /\ current_pattern = 0
    /\ gpc = "idle"
    /\ gerr = "none"
    /\ clip = NoClip
    /\ earlier = <<>>
    /\ effects = <<>>
    /\ final_clip = NoComposite
    /\ video = NotWritten
    /\ bg_err = "none"
    /\ bpc = "start"

BgNext ==
    \/ RejectTheme
    \/ StartEffects
    \/ MissingEffects
    \/ GenNext
    \/ NextEffect
    \/ EffectRaised
    \/ CompositeAndWrite

SpecBackground == BgInit /\ [][BgNext]_vars

\* C10: the composited background lasts the base canvas's declared
\* duration, the duration asked for, at the configured fps, whatever the
\* durations of the effect clips.
C10_CompositeLastsTheDuration ==
    (bpc = "done" /\ bg_err = "none")
        => /\ final_clip.duration = duration
           /\ video.written
           /\ video.duration = duration
           /\ video.n_frames = NumFrames(duration)

(***************************************************************************)
(* The frames of the composite: write_videofile asks final_clip for the    *)
(* frame of every frame time k / fps before its end.                       *)
(***************************************************************************)
\* The layers of cs from the j-th on that are playing at frame time k: a
\* clip plays from its start, 0, to its end, the end excluded.
RECURSIVE PlayingFrom(_, _, _)
PlayingFrom(cs, k, j) ==
    IF j > Len(cs) THEN <<>>
    ELSE IF k * TicksPerFrame < cs[j].clip.duration
         THEN <<[kind |-> cs[j].kind, image |-> ClipFrameAt(cs[j].clip, k)]>>
                  \o PlayingFrom(cs, k, j + 1)
         ELSE PlayingFrom(cs, k, j + 1)

\* CompositeVideoClip.make_frame(t): the layers that are playing at t, each
\* drawn over the ones before it in the list.
CompositeFrame(c, k) == PlayingFrom(c.layers, k, 1)

(***************************************************************************)
(* Claims about generate_background (checked under SpecBackground).        *)
(***************************************************************************)
Finished == bpc = "done" /\ bg_err = "none"

\* The last frame an effect clip holds.
FinalFrame(c) == c.image[Len(c.image)]

\* C11: when an effect clip ends before the composite does, every output
\* frame from the effect clip's end on shows that clip's final frame: the
\* layer is neither dropped nor looped.
C11_ShortEffectIsFrozen ==
    Finished
        => \A k \in 0..(video.n_frames - 1) :
               \A j \in 2..Len(final_clip.layers) :
                   LET layer == final_clip.layers[j]
                       drawn == CompositeFrame(final_clip, k)
                   IN  (k * TicksPerFrame >= layer.clip.duration)
                           => \E m \in 1..Len(drawn) :
                                  drawn[m] = [kind |-> layer.kind,
                                              image |-> FinalFrame(layer.clip)]

\* The place of a layer of the composite, by the generator that made it.
PlaceOf(kind) ==
    CHOOSE j \in 1..Len(final_clip.layers) : final_clip.layers[j].kind = kind

\* C12: in the composite the base canvas is the bottom layer and the effect
\* clips lie above it in the order of the effect list, none of them
\* reordered, dropped or doubled; every output frame draws the layers it
\* shows in that order, a later effect over every earlier one.
C12_LayersInListOrder ==
    Finished
        => /\ Len(final_clip.layers) = Len(effects) + 1
           /\ final_clip.layers[1].kind = "base"
           /\ final_clip.layers[1].clip.image = <<"black">>
           /\ \A j \in 1..Len(effects) : final_clip.layers[j + 1] = effects[j]
           /\ \A k \in 0..(video.n_frames - 1) :
                  LET drawn == CompositeFrame(final_clip, k)
                  IN  \A m, n \in 1..Len(drawn) :
                          m < n => PlaceOf(drawn[m].kind) < PlaceOf(drawn[n].kind)

\* A frame of a finished video that draws the base and both effects.
C12_Witness ==
    /\ Finished
    /\ Len(effects) = 2
    /\ Len(CompositeFrame(final_clip, 0)) = 3
    /\ CompositeFrame(final_clip, 0)[1].kind = "base"

EffectKinds == [j \in 1..Len(effects) |-> effects[j].kind]

\* C13: theme 'abstract', in any letter case, gives the effect list
\* [particle, geometric pattern] and 'realistic' gives [light flare, bokeh],
\* in that order and with no other effect, whatever the random stream: the
\* list grows along it, the generator at work is the next one of it, and a
\* finished call has all of it.
C13_ThemeGivesItsEffectList ==
    LET expected ==
            CASE theme \in {"abstract", "ABSTRACT"} -> <<"particle", "patterns">>
              [] theme \in {"realistic", "Realistic"} -> <<"flares", "bokeh">>
              [] OTHER -> <<>>
        n == Len(EffectKinds)
    IN  /\ n <= Len(expected)
        /\ EffectKinds = SubSeq(expected, 1, n)
        /\ (bpc = "effects") => (n < Len(expected) /\ gen = expected[n + 1])
        /\ Finished => EffectKinds = expected

C13_Witness ==
    /\ Finished
    /\ theme = "ABSTRACT"
    /\ EffectKinds = <<"particle", "patterns">>

\* The themes outside {realistic, animated, abstract, cinematic}, the
\* letter case left aside.
Unsupported ==
    theme \notin {"realistic", "animated", "abstract", "cinematic",
                  "ABSTRACT", "Realistic"}

\* C14: with a theme outside {realistic, animated, abstract, cinematic},
\* compared without regard to letter case, generate_background fails with
\* the unsupported-theme error, raised to the caller, before any effect is
\* generated, any clip composited or any file written; a theme of the set
\* in another letter case is not rejected so.
C14_UnsupportedThemeFailsFirst ==
    /\ Unsupported
           => /\ bpc \in {"start", "done"}
              /\ (bpc = "start") => ENABLED RejectTheme
              /\ (bpc = "done") => bg_err = "ValueError"
              /\ gen = "none" /\ gpc = "idle" /\ frames = <<>>
              /\ rng.pos = 0
              /\ effects = <<>>
              /\ final_clip = NoComposite
              /\ video = NotWritten
    /\ (bpc = "done" /\ bg_err = "ValueError" /\ gpc = "idle") => Unsupported

C14_Witness ==
    /\ theme = "noir"
    /\ bpc = "done"
    /\ bg_err = "ValueError"
    /\ video = NotWritten

\* C15: for the themes 'animated' and 'cinematic' the selection of effects
\* gives a fallback list and generate_background completes as for any other
\* supported theme, with its video written.
C15_AnimatedAndCinematicFallBack ==
    (Lower(theme) \in {"animated", "cinematic"} /\ bpc = "done")
        => /\ bg_err = "none"
           /\ video.written

(***************************************************************************)
(* Two generators of one theme at work in two threads of the process.      *)
(* Each has its own locals (gen's are the variables, the other's are       *)
(* peer); both call the functions of the one random module, whose state    *)
(* rng is the process's.  The threads interleave here at whole passes of   *)
(* the frame loop.                                                         *)
(***************************************************************************)
PeerLocals ==
    Locals(rng, peer.i, peer.frames, peer.particles, peer.bokeh_points,
           peer.current_pattern, peer.pc, peer.err, peer.clip)

PeerBecomes(loc) ==
    /\ rng' = loc.rng
    /\ peer' = [gen |-> peer.gen, i |-> loc.i, frames |-> loc.frames,
                particles |-> loc.particles,
                bokeh_points |-> loc.bokeh_points,
                current_pattern |-> loc.current_pattern,
                pc |-> loc.pc, err |-> loc.err, clip |-> loc.clip]

PeerUnchanged ==
    UNCHANGED <<energyVars, genArgs, frame_i, frames, particles, bokeh_points,
                current_pattern, gpc, gerr, clip, earlier, bgVars>>

PeerBegin ==
    /\ peer.pc = "start"
    /\ PeerBecomes(Begin(peer.gen, rng))
    /\ PeerUnchanged

PeerFrame ==
    /\ peer.pc = "loop"
    /\ peer.i < NumFrames(Duration(peer.gen, energy_profile, sync_points))
    /\ PeerBecomes(Frame(peer.gen, energy_profile, sync_points, PeerLocals))
    /\ PeerUnchanged

PeerConvert ==
    /\ peer.pc = "loop"
    /\ peer.i >= NumFrames(Duration(peer.gen, energy_profile, sync_points))
    /\ PeerBecomes(Convert(PeerLocals,
                           Duration(peer.gen, energy_profile, sync_points)))
    /\ PeerUnchanged

\* The calls: the two generators of 'abstract' or of 'realistic', with the
\* audio features _generate_effects passes to both.
ConcurrentSyncs == {sp \in SyncLists({(8 * Scale) \div 10}) : Len(sp) <= 1}

ConcurrentInit ==
    /\ EnergyIdle
    /\ BgIdle
    /\ gen \in {"particle", "flares"}
    /\ peer = [NoPeer EXCEPT
                  !.gen = IF gen = "particle" THEN "patterns" ELSE "bokeh",
                  !.pc = "start"]
    /\ energy_profile \in Profiles
    /\ sync_points \in ConcurrentSyncs
    /\ (gen = "flares") => sync_points # <<>>
    /\ rng \in [tape : Seeds, pos : {0}]
    /\ frame_i = 0
    /\ frames = <<>>
    /\ particles = <<>>
    /\ bokeh_points = <<>>
    /\ current_pattern = 0
    /\ gpc = "start"
    /\ gerr = "none"
    /\ clip = NoClip
    /\ earlier = <<>>

ConcurrentNext == GenNext \/ PeerBegin \/ PeerFrame \/ PeerConvert

SpecConcurrent == ConcurrentInit /\ [][ConcurrentNext]_vars

\* A generator run on its own from the seed r to its end.
RECURSIVE RunLoop(_, _, _, _)
RunLoop(g, ep, sp, loc) ==
    IF loc.pc # "loop" THEN loc
    ELSE IF loc.i < NumFrames(Duration(g, ep, sp))
         THEN RunLoop(g, ep, sp, Frame(g, ep, sp, loc))
         ELSE Convert(loc, Duration(g, ep, sp))

RunAlone(g, ep, sp, r) == RunLoop(g, ep, sp, Begin(g, r))

\* C16: two generators of one theme run concurrently, their frame steps
\* interleaved in any way, each end as when run alone with the same inputs
\* and the same random source: the same frames, the same clip or error.
C16_ConcurrentAsAlone ==
    LET seed == [tape |-> rng.tape, pos |-> 0]
        alone == RunAlone(gen, energy_profile, sync_points, seed)
        peer_alone == RunAlone(peer.gen, energy_profile, sync_points, seed)
    IN  /\ (gpc \in {"returned", "raised"})
               => /\ frames = alone.frames
                  /\ gpc = alone.pc /\ gerr = alone.err /\ clip = alone.clip
        /\ (peer.pc \in {"returned", "raised"})
               => /\ peer.frames = peer_alone.frames
                  /\ peer.pc = peer_alone.pc /\ peer.err = peer_alone.err
                  /\ peer.clip = peer_alone.clip

(***************************************************************************)
(* Claims about the steps of one generator call (checked under SpecGen).   *)
(***************************************************************************)
\* The pass of the frame loop that gen is about to make.
AtFrame(g) == gen = g /\ gpc = "loop" /\ frame_i < NumFrames(TheDuration)

\* The frame a pass of the loop has just appended.
NewFrame == frames'[Len(frames')]

\* The sync points within 0.1 s of frame k.
Qualifying(k) ==
    {j \in 1..Len(sync_points) : Near(sync_points[j][1], k)}

\* C17: in frame i of _create_geometric_patterns the pattern index goes
\* forward, mod 3, by the number of sync points within 0.1 s of i / fps,
\* once for each of them, and stays as it is when there is none; the frame
\* is drawn with the pattern of the index so reached: its shapes are of
\* that pattern, and as many as that pattern has at the frame's energy.
C17_AdvancePerQualifyingSyncPoint ==
    [][AtFrame("patterns")
          => LET n == Cardinality(Qualifying(frame_i))
                 counts == <<10, 8, 6>>
                 e == energy_profile[frame_i + 1]
             IN  /\ current_pattern' = (current_pattern + n) % 3
                 /\ (n = 0) => (current_pattern' = current_pattern)
                 /\ (gpc' = "loop")
                        => /\ Len(frames') = Len(frames) + 1
                           /\ NewFrame.step = frame_i
                           /\ NewFrame.pattern =
                                  <<"circles", "triangles", "squares">>
                                      [current_pattern' + 1]
                           /\ Len(NewFrame.shapes) =
                                  (counts[current_pattern' + 1] * e) \div Scale
      ]_vars

\* A frame in which two sync points qualified has taken the index from
\* circles to squares and is drawn with squares.
C17_Witness ==
    /\ gen = "patterns" /\ gpc = "loop"
    /\ frame_i = 1
    /\ Cardinality(Qualifying(0)) = 2
    /\ current_pattern = 2
    /\ frames[1].pattern = "squares"
    /\ Len(frames[1].shapes) > 0

\* C18: in the particle, pattern and bokeh generators the energy of output
\* frame i is energy_profile[min(i, len(energy_profile) - 1)], the profile
\* indexed by the frame index itself, and that index lies within
\* 0 .. len(energy_profile) - 1 for every frame rendered: what the frame
\* draws is drawn from that entry, and a frame that fails fails on it.
C18_EnergyIndexedByFrame ==
    [][(AtFrame("particle") \/ AtFrame("patterns") \/ AtFrame("bokeh"))
          => LET idx == Min(frame_i, Len(energy_profile) - 1)
                 e == energy_profile[idx + 1]
             IN  /\ idx = frame_i
                 /\ 0 <= idx /\ idx <= Len(energy_profile) - 1
                 /\ (gpc' = "raised") => (e = NaN /\ gerr' = "ValueError")
                 /\ (gpc' = "loop")
                        => /\ e # NaN
                           /\ NewFrame.step = frame_i
                           /\ (gen = "patterns")
                                  => NewFrame.alpha = (255 * e) \div Scale
                           /\ (gen = "particle")
                                  => \A p \in 1..Len(NewFrame.shapes) :
                                         NewFrame.shapes[p].alpha
                                             = (255 * e) \div Scale
                           /\ (gen = "bokeh")
                                  => \A p \in 1..Len(NewFrame.shapes) :
                                         NewFrame.shapes[p].current_size
                                             = (bokeh_points[p].size
                                                  * ((Scale \div 2) + e))
                                               \div Scale
      ]_vars

\* Two bokeh frames of a profile that rises from 0 to 1: the point is drawn
\* larger in the second.
C18_Witness ==
    /\ gen = "bokeh" /\ frame_i = 2
    /\ energy_profile[1] = 0 /\ energy_profile[2] = Scale
    /\ frames[2].shapes[1].current_size > frames[1].shapes[1].current_size

\* C19: _create_light_flares returns, for every sequence of sync points, a
\* clip that lasts to the time of the last sync point (5.0 s when there is
\* none), also when that time is below 1 / fps.
C19_FlareClipLastsToLastSyncPoint ==
    (gen = "flares" /\ gpc \in {"returned", "raised"})
        => /\ gpc = "returned"
           /\ clip.duration =
                  IF sync_points = <<>> THEN 5 * TicksPerSec
                  ELSE sync_points[Len(sync_points)][1]

\* C20: a generator completes fully or fails atomically: with no frame to
\* render it raises and returns no clip, a call that raises leaves no clip,
\* and a clip returned holds the whole of the frame sequence rendered, not
\* a truncated one.
C20_CompletesOrFailsAtomically ==
    /\ (gpc \in {"returned", "raised"} /\ NumFrames(TheDuration) = 0)
           => (gpc = "raised" /\ gerr # "none")
    /\ (gpc = "raised") => (clip = NoClip)
    /\ (gpc = "returned") => (clip.image = frames)

\* The sync points within the time range of the clip, and whether the sync
\* points lie more than 0.2 s from one another.
InsideClip == {j \in 1..Len(sync_points) : sync_points[j][1] <= TheDuration}

WellSeparated ==
    \A j, k \in 1..Len(sync_points) :
        (j # k) => 10 * Abs(sync_points[j][1] - sync_points[k][1])
                       > 2 * TicksPerSec

\* C21: over a whole geometric-pattern clip each sync point within the
\* clip's time range moves the pattern on exactly once: after k beats more
\* than 0.2 s apart the pattern index is k mod 3, however many frames lie
\* within 0.1 s of a beat.
C21_EachBeatAdvancesOnce ==
    (gen = "patterns" /\ gpc = "returned" /\ WellSeparated)
        => current_pattern = Cardinality(InsideClip) % 3

\* C22: in every frame, the first included, a particle and a bokeh point is
\* drawn at a position with 0 <= x < width and 0 <= y < height: the
\* positions drawn at random at the start are within the canvas, and no
\* point is drawn before it is wrapped.
C22_DrawnInsideTheCanvas ==
    /\ (gen = "particle")
           => \A k \in 1..Len(frames) : \A p \in 1..Len(frames[k].shapes) :
                  /\ 0 <= frames[k].shapes[p].x
                  /\ frames[k].shapes[p].x < width
                  /\ 0 <= frames[k].shapes[p].y
                  /\ frames[k].shapes[p].y < height
    /\ (gen = "bokeh")
           => \A k \in 1..Len(frames) : \A p \in 1..Len(frames[k].shapes) :
                  /\ 0 <= frames[k].shapes[p].cx
                  /\ frames[k].shapes[p].cx < width * PosDen
                  /\ 0 <= frames[k].shapes[p].cy
                  /\ frames[k].shapes[p].cy < height * PosDen

====
